---- MODULE Spec2Model ----
(***************************************************************************)
(* Package lines (files/lines/lines.go): Unwrap reads a file, joins the    *)
(* lines that end in the connector "\" and writes the result to a temp     *)
(* file.  Strings are modelled as sequences of one-character strings.      *)
(***************************************************************************)
EXTENDS Integers, Sequences, FiniteSets, TLC

\* ---------------------------------------------------------------- bounds
\* longest enumerated file content, in characters
MaxTextLen == 5

\* ------------------------------------------------------------- constants
\* const wrap = "\\"
wrap == <<"\\">>

\* the separator of strings.Split / strings.Join
NL == <<"\n">>

\* cutset of strings.TrimRight(..., " \r\n\t")
RightCutset == {" ", "\r", "\n", "\t"}

\* cutset of strings.TrimLeft(..., " \t")
LeftCutset == {" ", "\t"}

\* characters of the enumerated file contents
Alphabet == {"a", " ", "\r", "\\", "\n"}

\* the example document of the specification: "a \", "b", "c"
ExampleText == <<"a", " ", "\\", "\n", "b", "\n", "c">>

\* documents longer than MaxTextLen that exercise long runs
LongTexts ==
  { ExampleText,
    <<"a", "\\", "\n", " ", "b", "\\", "\n", "\t", "c", "\n", "d">>,
    <<"a", "\n", "b", "\\", "\n", "c", "\\", " ", "\n", "d", "\\">>,
    <<" ", "a", " ", "\\", "\r", "\n", "\t", "b", " ", "\n", " ", "c">> }

Texts == UNION { [1..n -> Alphabet] : n \in 0..MaxTextLen } \cup LongTexts

\* names ioutil.TempFile may pick, and a file that is in the temp directory
\* before the call
TmpNames == {"tpl1.txt", "tpl2.txt"}
PreExisting == {"other.txt"}

\* ------------------------------------------------- package strings (Go)
\* strings.Index: position (1-based) of the first occurrence, 0 when none
Index(s, sep) ==
  LET hits == { i \in 1..(Len(s) - Len(sep) + 1) : SubSeq(s, i, i + Len(sep) - 1) = sep }
  IN IF hits = {} THEN 0 ELSE CHOOSE i \in hits : \A j \in hits : i <= j

RECURSIVE Split(_, _)
Split(s, sep) ==
  LET i == Index(s, sep)
  IN IF i = 0 THEN <<s>>
     ELSE <<SubSeq(s, 1, i - 1)>> \o Split(SubSeq(s, i + Len(sep), Len(s)), sep)

RECURSIVE Join(_, _)
Join(elems, sep) ==
  IF Len(elems) = 0 THEN <<>>
  ELSE IF Len(elems) = 1 THEN elems[1]
  ELSE elems[1] \o sep \o Join(Tail(elems), sep)

RECURSIVE TrimRight(_, _)
TrimRight(s, cutset) ==
  IF Len(s) > 0 /\ s[Len(s)] \in cutset
  THEN TrimRight(SubSeq(s, 1, Len(s) - 1), cutset)
  ELSE s

RECURSIVE TrimLeft(_, _)
TrimLeft(s, cutset) ==
  IF Len(s) > 0 /\ s[1] \in cutset
  THEN TrimLeft(Tail(s), cutset)
  ELSE s

HasSuffix(s, suffix) ==
  /\ Len(s) >= Len(suffix)
  /\ SubSeq(s, Len(s) - Len(suffix) + 1, Len(s)) = suffix

TrimSuffix(s, suffix) ==
  IF HasSuffix(s, suffix) THEN SubSeq(s, 1, Len(s) - Len(suffix)) ELSE s

\* ------------------------------------------------- unwrapLinesInString
\* variant: the trimmed line is tested but not stored back
TrimLine_NotStored(lines, n) == lines

\* lines[n] = strings.TrimRight(lines[n], " \r\n\t")
TrimLine(lines, n) == [lines EXCEPT ![n] = TrimRight(@, RightCutset)]

\* variant: the last line keeps its connector
TrimLastLine_Kept(lines, n, connector) == lines

\* the branch "trim connector from last line" (n >= len(lines)-1)
TrimLastLine(lines, n, connector) ==
  [lines EXCEPT ![n] = TrimSuffix(@, connector)]

\* variant: the scan counts one line too many into the run
RECURSIVE ScanRun_OneMore(_, _, _, _, _)
ScanRun_OneMore(lines, connector, current, next, last) ==
  IF HasSuffix(lines[current], connector)
  THEN IF next > Len(lines)
       THEN [panic |-> TRUE, lines |-> lines, last |-> last]
       ELSE ScanRun_OneMore([lines EXCEPT ![next] = TrimRight(@, RightCutset)],
                            connector, current + 1, next + 1, last + 1)
  ELSE [panic |-> FALSE, lines |-> lines,
        last |-> IF last < Len(lines) THEN last + 1 ELSE last]

\* the inner loop: for current := first; HasSuffix(lines[current], connector);
\* an index past the end of the slice is a run-time panic
RECURSIVE ScanRun(_, _, _, _, _)
ScanRun(lines, connector, current, next, last) ==
  IF HasSuffix(lines[current], connector)
  THEN IF next > Len(lines)
       THEN [panic |-> TRUE, lines |-> lines, last |-> last]
       ELSE ScanRun(TrimLine(lines, next), connector, current + 1, next + 1, last + 1)
  ELSE [panic |-> FALSE, lines |-> lines, last |-> last]

\* variant: the leading spaces of a continuation line are kept
Fragment_KeepLeading(line, connector) == TrimSuffix(line, connector)

\* what one pass of the builder loop writes for line i
Fragment(line, connector) == TrimLeft(TrimSuffix(line, connector), LeftCutset)

\* the builder loop: for i := first + 1; i <= last; i++ { WriteString(...) }
RECURSIVE WriteFragments(_, _, _, _)
WriteFragments(lines, connector, i, last) ==
  IF i > last THEN <<>>
  ELSE Fragment(lines[i], connector) \o WriteFragments(lines, connector, i + 1, last)

\* variant: the first line is trimmed again after its connector is cut
JoinedLine_Retrimmed(lines, connector, first, last) ==
  TrimRight(TrimSuffix(lines[first], connector), RightCutset)
    \o WriteFragments(lines, connector, first + 1, last)

\* lineBuilder.String()
JoinedLine(lines, connector, first, last) ==
  TrimSuffix(lines[first], connector) \o WriteFragments(lines, connector, first + 1, last)

\* variant: the absorbed lines are not cleared
StoreRun_NotCleared(lines, connector, first, last) ==
  [i \in 1..Len(lines) |->
     IF i = first
     THEN TrimSuffix(lines[first], connector) \o WriteFragments(lines, connector, first + 1, last)
     ELSE lines[i]]

\* lines[i] = "" for first < i <= last, lines[first] = lineBuilder.String()
StoreRun(lines, connector, first, last) ==
  [i \in 1..Len(lines) |->
     IF i = first THEN JoinedLine(lines, connector, first, last)
     ELSE IF i > first /\ i <= last THEN <<>>
     ELSE lines[i]]

\* for n := range lines { ... }; indexes are 1-based here
RECURSIVE RangeLines(_, _, _)
RangeLines(lines, connector, n) ==
  IF n > Len(lines)
  THEN [panic |-> FALSE, text |-> Join(lines, NL)]
  ELSE LET trimmed == TrimLine(lines, n) IN
       IF HasSuffix(trimmed[n], connector)
       THEN IF n >= Len(trimmed)
            THEN [panic |-> FALSE, text |-> Join(TrimLastLine(trimmed, n, connector), NL)]
            ELSE LET run == ScanRun(trimmed, connector, n, n + 1, n) IN
                 IF run.panic
                 THEN [panic |-> TRUE, text |-> <<>>]
                 ELSE RangeLines(StoreRun(run.lines, connector, n, run.last), connector, n + 1)
       ELSE RangeLines(trimmed, connector, n + 1)

unwrapLinesInString(text, connector) == RangeLines(Split(text, NL), connector, 1)

\* ------------------------------------------------------------------ state
VARIABLES
  src,          \* content of the file at filePath
  pc,           \* position in Unwrap
  text,         \* local variable text of Unwrap
  tmpDir,       \* names of the files in the temp directory
  tmpName,      \* tmpFile.Name(), "" while tmpFile is nil
  tmpOpen,      \* the handle tmpFile is open
  tmpData,      \* content of the temp file
  newFilePath,  \* result: path
  cleanUp,      \* result: "nil", "noop" (func() {}) or "remove" (os.Remove)
  err,          \* result: "nil" or the kind of the error
  cleaned       \* the caller has invoked cleanUp

vars == <<src, pc, text, tmpDir, tmpName, tmpOpen, tmpData, newFilePath, cleanUp, err, cleaned>>

Init ==
  /\ src \in Texts
  /\ pc = "call"
  /\ text = <<>>
  /\ tmpDir = PreExisting
  /\ tmpName = ""
  /\ tmpOpen = FALSE
  /\ tmpData = <<>>
  /\ newFilePath = ""
  /\ cleanUp = "nil"
  /\ err = "nil"
  /\ cleaned = FALSE

\* variant: the named result cleanUp is left nil
Enter_NilCleanUp ==
  /\ pc = "call"
  /\ cleanUp' = "nil"
  /\ pc' = "readFile"
  /\ UNCHANGED <<src, text, tmpDir, tmpName, tmpOpen, tmpData, newFilePath, err, cleaned>>

\* cleanUp = func() {}
Enter ==
  /\ pc = "call"
  /\ cleanUp' = "noop"
  /\ pc' = "readFile"
  /\ UNCHANGED <<src, text, tmpDir, tmpName, tmpOpen, tmpData, newFilePath, err, cleaned>>

\* return "", cleanUp, err
ReturnError(kind) ==
  /\ newFilePath' = ""
  /\ err' = kind
  /\ pc' = "returned"
  /\ UNCHANGED <<src, text, tmpDir, tmpName, tmpOpen, tmpData, cleanUp, cleaned>>

\* readFile: os.Open fails
ReadFileOpenFails ==
  /\ pc = "readFile"
  /\ ReturnError("open")

\* readFile: ioutil.ReadAll fails
ReadFileReadFails ==
  /\ pc = "readFile"
  /\ ReturnError("read")

\* readFile succeeds: text = string(b)
ReadFileOk ==
  /\ pc = "readFile"
  /\ text' = src
  /\ pc' = "tempFile"
  /\ UNCHANGED <<src, tmpDir, tmpName, tmpOpen, tmpData, newFilePath, cleanUp, err, cleaned>>

\* tempFile: ioutil.TempFile fails, no file is created
TempFileFails ==
  /\ pc = "tempFile"
  /\ ReturnError("create")

\* tempFile succeeds; defer tmpFile.Close(); cleanUp = func() { os.Remove(...) }
TempFileOk ==
  /\ pc = "tempFile"
  /\ \E name \in TmpNames \ tmpDir :
       /\ tmpDir' = tmpDir \cup {name}
       /\ tmpName' = name
  /\ tmpOpen' = TRUE
  /\ cleanUp' = "remove"
  /\ pc' = "unwrap"
  /\ UNCHANGED <<src, text, tmpData, newFilePath, err, cleaned>>

\* text = unwrapLinesInString(text, wrap); a panic unwinds Unwrap, running
\* the deferred tmpFile.Close()
UnwrapLines ==
  /\ pc = "unwrap"
  /\ LET r == unwrapLinesInString(text, wrap) IN
       IF r.panic
       THEN /\ pc' = "panicked"
            /\ tmpOpen' = FALSE
            /\ text' = text
       ELSE /\ pc' = "write"
            /\ tmpOpen' = tmpOpen
            /\ text' = r.text
  /\ UNCHANGED <<src, tmpDir, tmpName, tmpData, newFilePath, cleanUp, err, cleaned>>

\* variant: a failed write returns like the other failures, with an empty path
WriteFails_EmptyPath ==
  /\ pc = "write"
  /\ \E k \in 0..Len(text) :
       /\ k < Len(text) \/ Len(text) = 0
       /\ tmpData' = SubSeq(text, 1, k)
  /\ newFilePath' = ""
  /\ err' = "write"
  /\ tmpOpen' = FALSE
  /\ pc' = "returned"
  /\ UNCHANGED <<src, text, tmpDir, tmpName, cleanUp, cleaned>>

\* tmpFile.WriteString fails after writing the first k characters;
\* return tmpFile.Name(), cleanUp, errors.New(message); deferred Close
WriteFails ==
  /\ pc = "write"
  /\ \E k \in 0..Len(text) :
       /\ k < Len(text) \/ Len(text) = 0
       /\ tmpData' = SubSeq(text, 1, k)
  /\ newFilePath' = tmpName
  /\ err' = "write"
  /\ tmpOpen' = FALSE
  /\ pc' = "returned"
  /\ UNCHANGED <<src, text, tmpDir, tmpName, cleanUp, cleaned>>

\* tmpFile.WriteString succeeds; return tmpFile.Name(), cleanUp, nil
WriteOk ==
  /\ pc = "write"
  /\ tmpData' = text
  /\ newFilePath' = tmpName
  /\ err' = "nil"
  /\ tmpOpen' = FALSE
  /\ pc' = "returned"
  /\ UNCHANGED <<src, text, tmpDir, tmpName, cleanUp, cleaned>>

\* the caller invokes the cleanUp it was handed (calling a nil func panics)
CallCleanUp ==
  /\ pc = "returned"
  /\ ~cleaned
  /\ cleaned' = TRUE
  /\ tmpDir' = IF cleanUp = "remove" THEN tmpDir \ {tmpName} ELSE tmpDir
  /\ pc' = IF cleanUp = "nil" THEN "panicked" ELSE pc
  /\ UNCHANGED <<src, text, tmpName, tmpOpen, tmpData, newFilePath, cleanUp, err>>

Next ==
  \/ Enter
  \/ ReadFileOpenFails
  \/ ReadFileReadFails
  \/ ReadFileOk
  \/ TempFileFails
  \/ TempFileOk
  \/ UnwrapLines
  \/ WriteFails
  \/ WriteOk
  \/ CallCleanUp

Spec == Init /\ [][Next]_vars

TypeOK ==
  /\ pc \in {"call", "readFile", "tempFile", "unwrap", "write", "returned", "panicked"}
  /\ cleanUp \in {"nil", "noop", "remove"}
  /\ err \in {"nil", "open", "read", "create", "write"}
  /\ tmpDir \subseteq (TmpNames \cup PreExisting)
  /\ tmpOpen \in BOOLEAN
  /\ cleaned \in BOOLEAN
\* ------------------------------------------------ views used by the claims
\* the document read from the file, as lines
InLines == Split(src, NL)

NumLines == Len(InLines)

\* the text unwrapLinesInString returned, as lines
OutLines == Split(text, NL)

\* unwrapLinesInString has returned and its result is in text
Unwrapped == pc = "write" \/ (pc = "returned" /\ err \in {"nil", "write"})

\* unwrapLinesInString was called and has returned or panicked
UnwrapCalled == Unwrapped \/ pc = "panicked"

\* line i with trailing whitespace trimmed
Trimmed(i) == TrimRight(InLines[i], RightCutset)

\* line i ends with the marker after trimming
Marked(i) == HasSuffix(Trimmed(i), wrap)

\* a run starts at line s: s is not the final line, ends in the marker and
\* is not a continuation of the line before it
RunStart(s) ==
  /\ s \in 1..(NumLines - 1)
  /\ Marked(s)
  /\ (s = 1 \/ ~Marked(s - 1))

\* the run that starts at s has a terminator (a line not ending in the marker)
HasTerminator(s) == \E t \in (s + 1)..NumLines : ~Marked(t)

\* the terminator of the run that starts at s
Terminator(s) ==
  CHOOSE t \in (s + 1)..NumLines :
    /\ ~Marked(t)
    /\ \A j \in (s + 1)..(t - 1) : Marked(j)

\* a continuation line as the claims describe it: trailing whitespace
\* trimmed, trailing marker stripped, leading spaces and tabs stripped
Continuation(i) == TrimLeft(TrimSuffix(Trimmed(i), wrap), {" ", "\t"})

RECURSIVE Continuations(_, _)
Continuations(i, t) ==
  IF i > t THEN <<>> ELSE Continuation(i) \o Continuations(i + 1, t)

\* the joined line the claims describe for the run s..t
ExpectedJoin(s, t) == TrimSuffix(Trimmed(s), wrap) \o Continuations(s + 1, t)

\* no character of the marker occurs in the document
MarkerFree == Index(src, wrap) = 0

\* ------------------------------------------------------------------ claims

\* C1: for every input text unwrapLinesInString returns a text with as many
\* newline-separated lines as the input.
C1_LineCountPreserved ==
  UnwrapCalled => (Unwrapped /\ Len(OutLines) = NumLines)

\* whenever unwrapLinesInString does return, the line count is the input's
LineCountWhenReturned == Unwrapped => Len(OutLines) = NumLines

\* C2: when the final line ends with the marker after trimming,
\* unwrapLinesInString returns normally and the final output line is that
\* line with its trailing marker dropped, whatever precedes it.
C2_FinalMarkerDropped ==
  (UnwrapCalled /\ Marked(NumLines)) =>
     /\ Unwrapped
     /\ OutLines[Len(OutLines)] = TrimSuffix(Trimmed(NumLines), wrap)

\* C3: for every run with a terminator that starts at a non-final line, the
\* output line at the run's start is the first line (trimmed, marker cut,
\* leading whitespace kept) followed without separator by every later line of
\* the run through the terminator, each trimmed, marker cut and leading
\* spaces/tabs cut.
C3_JoinedLineContent ==
  Unwrapped =>
    \A s \in 1..NumLines :
      (RunStart(s) /\ HasTerminator(s)) =>
         /\ s <= Len(OutLines)
         /\ OutLines[s] = ExpectedJoin(s, Terminator(s))

\* a run of three lines whose first line and a continuation line both start
\* with a space or tab has been joined
C3_Witness ==
  /\ Unwrapped
  /\ \E s \in 1..NumLines :
       /\ RunStart(s) /\ HasTerminator(s)
       /\ Terminator(s) >= s + 2
       /\ \E i \in (s + 1)..Terminator(s) :
            Len(InLines[i]) > 1 /\ InLines[i][1] \in {" ", "\t"}
       /\ OutLines[s] = ExpectedJoin(s, Terminator(s))
       /\ Len(OutLines[s]) >= 3

\* C4 as stated: a run of k marker-terminated lines and a terminator
\* collapses to exactly one non-empty line at the run's start and k empty
\* lines after it, the terminator's content last in the joined line.
C4_RunCollapsesNonEmpty ==
  Unwrapped =>
    \A s \in 1..NumLines :
      (RunStart(s) /\ HasTerminator(s)) =>
         /\ OutLines[s] # <<>>
         /\ \A i \in (s + 1)..Terminator(s) : OutLines[i] = <<>>
         /\ HasSuffix(OutLines[s], Continuation(Terminator(s)))

\* C4 amended: the run collapses to one joined line at the run's start,
\* empty exactly when every fragment of the run is empty, and k empty lines
\* after it, the terminator's content last in the joined line.
C4_RunCollapses ==
  Unwrapped =>
    \A s \in 1..NumLines :
      (RunStart(s) /\ HasTerminator(s)) =>
         /\ Terminator(s) <= Len(OutLines)
         /\ (OutLines[s] = <<>>) <=>
              (/\ TrimSuffix(Trimmed(s), wrap) = <<>>
               /\ \A i \in (s + 1)..Terminator(s) : Continuation(i) = <<>>)
         /\ \A i \in (s + 1)..Terminator(s) : OutLines[i] = <<>>
         /\ HasSuffix(OutLines[s], Continuation(Terminator(s)))

\* a run with k = 2 and a non-empty terminator has collapsed
C4_Witness ==
  /\ Unwrapped
  /\ \E s \in 1..NumLines :
       /\ RunStart(s) /\ HasTerminator(s)
       /\ Terminator(s) = s + 2
       /\ Continuation(s + 2) # <<>>
       /\ OutLines[s] # <<>>
       /\ OutLines[s + 1] = <<>> /\ OutLines[s + 2] = <<>>

\* C5 as stated: on a document without any marker the result is the input.
C5_IdentityWithoutMarker ==
  (UnwrapCalled /\ MarkerFree) => (Unwrapped /\ text = src)

\* C5 amended: on a document without any marker the function returns the
\* input with the trailing whitespace of every line trimmed; it is the
\* identity exactly when no line has trailing whitespace.
C5_TrimmedWithoutMarker ==
  (UnwrapCalled /\ MarkerFree) =>
     /\ Unwrapped
     /\ Len(OutLines) = NumLines
     /\ \A i \in 1..NumLines : OutLines[i] = Trimmed(i)
     /\ (text = src) <=> (\A i \in 1..NumLines : Trimmed(i) = InLines[i])

\* a marker-free document with trailing whitespace on a line was unwrapped
C5_Witness ==
  /\ Unwrapped
  /\ MarkerFree
  /\ NumLines >= 2
  /\ \E i \in 1..NumLines : Trimmed(i) # InLines[i] /\ Trimmed(i) # <<>>
  /\ text # src

\* no marker-terminated line has whitespace or another marker right before
\* its trailing marker
MarkerFollowsContent ==
  \A i \in 1..NumLines :
    Marked(i) =>
      LET c == TrimSuffix(Trimmed(i), wrap)
      IN TrimRight(c, RightCutset) = c /\ ~HasSuffix(c, wrap)

\* C6 as stated: whenever the unwrapper returns, no output line ends in the
\* marker and unwrapping the output again returns the output.
C6_Idempotent ==
  Unwrapped =>
    /\ \A i \in 1..Len(OutLines) : ~HasSuffix(OutLines[i], wrap)
    /\ unwrapLinesInString(text, wrap) = [panic |-> FALSE, text |-> text]

\* C6 amended: the same, for documents in which no marker-terminated line
\* has whitespace or another marker right before its trailing marker.
C6_IdempotentOnContent ==
  (Unwrapped /\ MarkerFollowsContent) =>
    /\ \A i \in 1..Len(OutLines) : ~HasSuffix(OutLines[i], wrap)
    /\ unwrapLinesInString(text, wrap) = [panic |-> FALSE, text |-> text]

\* such a document with a joined run and a trailing marker on its final
\* line was unwrapped
C6_Witness ==
  /\ Unwrapped
  /\ MarkerFollowsContent
  /\ \E s \in 1..NumLines : RunStart(s) /\ HasTerminator(s)
  /\ \E i \in 1..NumLines : Marked(i) /\ Len(Trimmed(i)) > 1
  /\ text # src

\* C7 as stated: the lines "a \", "b", "c" unwrap to "ab", "", "c".
C7_ExampleDropsSpace ==
  (Unwrapped /\ src = ExampleText) => OutLines = << <<"a", "b">>, <<>>, <<"c">> >>

\* C7 amended: the lines "a \", "b", "c" unwrap to "a b", "", "c": the space
\* between the first line's content and its marker stays in the joined line.
C7_ExampleKeepsSpace ==
  (UnwrapCalled /\ src = ExampleText) =>
     /\ Unwrapped
     /\ OutLines = << <<"a", " ", "b">>, <<>>, <<"c">> >>

\* the example document was unwrapped
C7_Witness == Unwrapped /\ src = ExampleText /\ Len(OutLines) = 3

\* C8: every line that lies in no run (it does not end with the marker and
\* neither does the line before it) is, in the output, the input line at the
\* same index with only its trailing whitespace trimmed.
C8_LinesOutsideRunsKept ==
  Unwrapped =>
    \A i \in 1..NumLines :
      (~Marked(i) /\ (i = 1 \/ ~Marked(i - 1))) =>
         /\ i <= Len(OutLines)
         /\ OutLines[i] = Trimmed(i)

\* a non-empty line after a joined run kept its index
C8_Witness ==
  /\ Unwrapped
  /\ \E s \in 1..NumLines :
       /\ RunStart(s) /\ HasTerminator(s)
       /\ Terminator(s) < NumLines
       /\ LET i == Terminator(s) + 1
          IN /\ ~Marked(i)
             /\ InLines[i] # <<>>
             /\ OutLines[i] = InLines[i]

\* C9: when Unwrap returns without having created the temp file (open, read
\* or create failed) the path is empty, the error is not nil, the cleanup is
\* the no-op, whose call changes no file and does not crash, and the temp
\* directory holds no new file; on every exit the cleanup is set.
C9_FailureBeforeTempFile ==
  /\ (pc = "returned" /\ tmpName = "") =>
        /\ err \in {"open", "read", "create"}
        /\ newFilePath = ""
        /\ cleanUp = "noop"
        /\ tmpDir = PreExisting
  /\ (pc = "returned" /\ err \in {"open", "read", "create"}) => tmpName = ""
  /\ pc \in {"returned", "panicked"} => cleanUp # "nil"
  /\ cleaned => pc = "returned"

\* the temp file could not be created and the caller has called the cleanup
C9_Witness ==
  /\ pc = "returned"
  /\ err = "create"
  /\ cleaned
  /\ tmpDir = PreExisting

\* C10: when the write fails Unwrap returns the created temp file's path, a
\* non-nil error and the removing cleanup; the handle is closed, the file
\* exists until the cleanup is called, and the cleanup removes that file only.
C10_WriteFailureKeepsTempFile ==
  (pc = "returned" /\ err = "write") =>
     /\ tmpName \in TmpNames
     /\ newFilePath = tmpName
     /\ newFilePath # ""
     /\ cleanUp = "remove"
     /\ ~tmpOpen
     /\ ~cleaned => tmpDir = PreExisting \cup {newFilePath}
     /\ cleaned => tmpDir = PreExisting

\* a write failed half way and the caller has removed the temp file
C10_Witness ==
  /\ pc = "returned"
  /\ err = "write"
  /\ tmpData # <<>>
  /\ tmpData # text
  /\ cleaned
  /\ newFilePath \notin tmpDir
====
